---- MODULE Spec2Model ----
(***************************************************************************)
(* snapVertsToClosest.py: snapping selected vertices onto the closest      *)
(* vertex of the nearest face of a reference mesh.                         *)
(*                                                                         *)
(* Numbers.  The program computes with Python floats; the constants and    *)
(* coordinates used here are exactly representable, and the model          *)
(* computes with exact reals.  A coordinate is a two-limb number           *)
(*     [hi, lo]  standing for  hi * 2^32 + lo                              *)
(* so that the sentinel 2^32 - 1 and distances around it can be written    *)
(* down although TLC's integers are 32 bits wide.  The square of such a    *)
(* number, and a sum of such squares, is a radicand                        *)
(*     [c, b, a]  standing for  c * 2^64 + b * 2^33 + a                    *)
(* With the small limbs used here, radicands are ordered                   *)
(* lexicographically by (c, b, a).  A scalar that takes part in a          *)
(* comparison is [sign, rad]: its sign and the radicand of its square;     *)
(* math.sqrt of a radicand r is the scalar of sign 0 or 1 whose rad is r.  *)
(***************************************************************************)
EXTENDS Integers, Sequences, FiniteSets, TLC

VARIABLES
    pos,              \* host scene: world position of every vertex
    pos0,             \* the positions when the command was issued
    pc,               \* where the program is
    ui,               \* the caller, and what the host answered to snap_it's queries
    referenceObject,  \* arguments of snap_to_closest_vertex
    vertices,
    tolerance,
    idx,              \* index in vertices of the vertex of the outer loop
    closest_distance, \* locals of snap_to_closest_vertex
    vertex_position,
    vtxs_faces,
    closest_position,
    cand,             \* index in vtxs_faces of the next candidate
    node,             \* the nearestPointOnMesh node: "none", "alive", "deleted"
    progress,         \* the progress bar: "idle", "active", "ended"
    isCancelled,      \* the progress bar's cancellation flag
    exc,              \* the exception that left the operation, or "none"
    log               \* counters of the calls made to the host

vars == <<pos, pos0, pc, ui, referenceObject, vertices, tolerance, idx,
          closest_distance, vertex_position, vtxs_faces, closest_position,
          cand, node, progress, isCancelled, exc, log>>

----------------------------------------------------------------------------
\* Bounds of the model.

\* longest vertex list handed to snap_to_closest_vertex
MaxVertices == 2

\* most vertex-face elements a face converts to
MaxCandidates == 2

----------------------------------------------------------------------------
\* Numbers.

Num(h, l) == [hi |-> h, lo |-> l]

Small(n) == Num(0, n)

SignOf(n) == IF n.hi # 0 THEN (IF n.hi > 0 THEN 1 ELSE -1)
             ELSE IF n.lo > 0 THEN 1 ELSE IF n.lo < 0 THEN -1 ELSE 0

Sub(x, y) == Num(x.hi - y.hi, x.lo - y.lo)

\* x * x, as a radicand
Square(x) == [c |-> x.hi * x.hi, b |-> x.hi * x.lo, a |-> x.lo * x.lo]

RadAdd(r, s) == [c |-> r.c + s.c, b |-> r.b + s.b, a |-> r.a + s.a]

RadLess(r, s) ==
    \/ r.c < s.c
    \/ r.c = s.c /\ r.b < s.b
    \/ r.c = s.c /\ r.b = s.b /\ r.a < s.a

RadZero == [c |-> 0, b |-> 0, a |-> 0]

\* math.sqrt(r)
Sqrt(r) == [sign |-> IF r = RadZero THEN 0 ELSE 1, rad |-> r]

\* a two-limb number as a scalar
Scalar(n) == [sign |-> SignOf(n), rad |-> Square(n)]

\* x < y on scalars
Less(x, y) ==
    \/ x.sign < y.sign
    \/ x.sign = 1 /\ y.sign = 1 /\ RadLess(x.rad, y.rad)
    \/ x.sign = -1 /\ y.sign = -1 /\ RadLess(y.rad, x.rad)

TOLERANCE == Scalar(Small(10))

INITIALISATION_DISTANCE == Scalar(Num(1, -1))

get_magnitude(point_a, point_b) ==
    LET dx == Sub(point_a[1], point_b[1])
        dy == Sub(point_a[2], point_b[2])
        dz == Sub(point_a[3], point_b[3])
    IN  Sqrt(RadAdd(RadAdd(Square(dx), Square(dy)), Square(dz)))

----------------------------------------------------------------------------
\* The host scene and the values the host hands back.

Pt(x, y, z) == <<Small(x), Small(y), Small(z)>>

\* a point 2^32 away from the origin along x
FarPoint == <<Num(1, 0), Small(0), Small(0)>>

Points == {Pt(0, 0, 0), Pt(1, 0, 0), Pt(1, 1, 0), FarPoint}

\* the vertices of the scene, of the reference mesh and of other meshes alike
Verts == {1, 2, 3}

VtxNode(v) == [kind |-> "vtx", id |-> v]

\* a selected node that is no vertex component
OtherNode == [kind |-> "transform", id |-> 0]

Nodes == {VtxNode(v) : v \in Verts} \cup {OtherNode}

\* sequences without repetition over S, of length at most n
InjSeqs(S, n) ==
    UNION {{q \in [1..k -> S] : \A i, j \in 1..k : q[i] = q[j] => i = j} : k \in 0..n}

\* a host command's list result: Python None, or a list
None == [isNone |-> TRUE, items |-> <<>>]

List(q) == [isNone |-> FALSE, items |-> q]

\* cmds.listRelatives(object_, shapes=True, ...)
ListRelativesResults ==
    {None, List(<<"refShape">>), List(<<"refShapeOrig", "refShape">>)}

\* cmds.ls(sl=True, fl=True)
Selections == InjSeqs(Nodes, MaxVertices)

\* cmds.getAttr(node + ".nearestFaceIndex")
FaceIds == {0}

\* a vertex-face element: a vertex as used by one face
VtxFace(f, v) == [face |-> f, vtx |-> v]

\* cmds.filterExpand(cmds.polyListComponentConversion(face, toVertexFace), sm=70):
\* None, or the corners of the face, each a different vertex
VtxFacesResults(f) ==
    {None} \cup {List(q) : q \in InjSeqs({VtxFace(f, v) : v \in Verts}, MaxCandidates)}

\* cmds.polyListComponentConversion(vtxs_face, fromVertexFace=True, toVertex=True)
ToVertex(vtxs_face) == vtxs_face.vtx

\* cmds.pointPosition(vertex, world=True)
pointPosition(scene, v) == scene[v]

\* the tolerances snap_to_closest_vertex is called with
Tolerances == {Scalar(Small(-1)), Scalar(Small(0)), Scalar(Small(1)), TOLERANCE,
               Scalar(Num(2, 0))}

NoUi == [via |-> "none", exists |-> FALSE, rel |-> None, sel |-> <<>>]

NoLog == [calls |-> 0, created |-> 0, deleted |-> 0, queries |-> 0, polls |-> 0,
          steps |-> 0, movesHere |-> 0, scanned |-> <<>>, settled |-> <<>>]

NoPoint == <<>>

----------------------------------------------------------------------------
\* State after the module is loaded: a scene, and no command issued yet.

Init ==
    /\ pos \in [Verts -> Points]
    /\ pos0 = pos
    /\ pc = "idle"
    /\ ui = NoUi
    /\ referenceObject = ""
    /\ vertices = <<>>
    /\ tolerance = TOLERANCE
    /\ idx = 0
    /\ closest_distance = INITIALISATION_DISTANCE
    /\ vertex_position = NoPoint
    /\ vtxs_faces = None
    /\ closest_position = NoPoint
    /\ cand = 0
    /\ node = "none"
    /\ progress = "idle"
    /\ isCancelled = FALSE
    /\ exc = "none"
    /\ log = NoLog

locals == <<idx, closest_distance, vertex_position, vtxs_faces, closest_position, cand>>

host == <<node, progress, isCancelled>>

----------------------------------------------------------------------------
\* get_shapes, lines 28-42

get_shapes(shapes) == IF shapes.isNone THEN <<>> ELSE shapes.items

\* re.search("\.vtx\[[0-9]*\]", node), line 123
IsVertexComponent(n) == n.kind = "vtx"

\* the call of snap_to_closest_vertex: its arguments are bound
Enter(ref, verts, tol) ==
    /\ referenceObject' = ref
    /\ vertices' = verts
    /\ tolerance' = tol
    /\ pc' = "called"
    /\ log' = [log EXCEPT !.calls = @ + 1]

\* line 124 without its test of the selection
ShouldSnap_noSelection(reference_object_shapes, selected_vertices) ==
    ~reference_object_shapes.isNone

\* line 124: reference_object_shapes and selected_vertices and ...
ShouldSnap(reference_object_shapes, selected_vertices) ==
    ~reference_object_shapes.isNone /\ Len(selected_vertices) > 0

\* snap_it, lines 115-125
snap_it ==
    /\ pc = "idle"
    /\ \E exists \in BOOLEAN, rel \in ListRelativesResults, sel \in Selections :
          LET shapes == IF exists THEN get_shapes(rel) ELSE <<>>
              reference_object_shapes == IF Len(shapes) > 0 THEN List(shapes) ELSE None
              selected_vertices == SelectSeq(sel, IsVertexComponent)
          IN  /\ ui' = [via |-> "snap_it", exists |-> exists, rel |-> rel, sel |-> sel]
              /\ IF ShouldSnap(reference_object_shapes, selected_vertices)
                 THEN Enter(reference_object_shapes.items[1], selected_vertices, TOLERANCE)
                 ELSE /\ pc' = "returned"
                      /\ UNCHANGED <<referenceObject, vertices, tolerance, log>>
    /\ UNCHANGED <<pos, pos0, locals, host, exc>>

\* snap_to_closest_vertex called by another caller, lines 63-69
Invoke ==
    /\ pc = "idle"
    /\ \E verts \in InjSeqs({VtxNode(v) : v \in Verts}, MaxVertices), tol \in Tolerances :
          Enter("refShape", verts, tol)
    /\ ui' = [NoUi EXCEPT !.via = "direct"]
    /\ UNCHANGED <<pos, pos0, locals, host, exc>>

\* lines 71-78 with a return on an empty vertex list put before them
Begin_earlyReturn ==
    /\ pc = "called"
    /\ IF vertices = <<>>
       THEN /\ pc' = "returned"
            /\ UNCHANGED <<progress, isCancelled, node, log, idx>>
       ELSE /\ progress' = "active"
            /\ isCancelled' = FALSE
            /\ node' = "alive"
            /\ log' = [log EXCEPT !.created = @ + 1]
            /\ idx' = 1
            /\ pc' = "loop"
    /\ ui' = [NoUi EXCEPT !.via = ui.via]
    /\ UNCHANGED <<pos, pos0, referenceObject, vertices, tolerance,
                   closest_distance, vertex_position, vtxs_faces, closest_position,
                   cand, exc>>

\* lines 71-78: the progress bar begins, the plugin is loaded, the node is created
\* (the host's answers to snap_it are read no more: ui keeps the caller alone)
Begin ==
    /\ pc = "called"
    /\ ui' = [NoUi EXCEPT !.via = ui.via]
    /\ progress' = "active"
    /\ isCancelled' = FALSE
    /\ node' = "alive"
    /\ log' = [log EXCEPT !.created = @ + 1]
    /\ idx' = 1
    /\ pc' = "loop"
    /\ UNCHANGED <<pos, pos0, referenceObject, vertices, tolerance,
                   closest_distance, vertex_position, vtxs_faces, closest_position,
                   cand, exc>>

\* the user presses Esc while the interruptable progress bar is active
PressEsc ==
    /\ progress = "active"
    /\ ~isCancelled
    /\ isCancelled' = TRUE
    /\ UNCHANGED <<pos, pos0, pc, ui, referenceObject, vertices, tolerance, locals,
                   node, progress, exc, log>>

\* lines 80-82 with the moves undone when the flag is found set
LoopHead_rollback ==
    /\ pc = "loop"
    /\ IF idx > Len(vertices)
       THEN /\ pc' = "end"
            /\ log' = log
            /\ pos' = pos
       ELSE /\ log' = [log EXCEPT !.polls = @ + 1]
            /\ pc' = IF isCancelled THEN "end" ELSE "body"
            /\ pos' = IF isCancelled THEN pos0 ELSE pos
    /\ UNCHANGED <<pos0, ui, referenceObject, vertices, tolerance, locals, host, exc>>

\* lines 80-82: the next vertex, if any, and the poll of the cancellation flag
LoopHead ==
    /\ pc = "loop"
    /\ IF idx > Len(vertices)
       THEN /\ pc' = "end"
            /\ log' = log
       ELSE /\ log' = [log EXCEPT !.polls = @ + 1]
            /\ pc' = IF isCancelled THEN "end" ELSE "body"
    /\ UNCHANGED <<pos, pos0, ui, referenceObject, vertices, tolerance, locals, host, exc>>

\* the comparison of line 105 written <=
WithinTolerance_le(distance, tol) == ~Less(tol, distance)

\* line 105
WithinTolerance(distance, tol) == Less(distance, tol)

\* the comparison of line 101 written <=
Improves_le(distance, closest) == ~Less(closest, distance)

\* the comparison of line 101 written >
Improves_gt(distance, closest) == Less(closest, distance)

\* line 101
Improves(distance, closest) == Less(distance, closest)

\* lines 84-94, and line 95 when the candidates are None
Query ==
    /\ pc = "body"
    /\ closest_distance' = INITIALISATION_DISTANCE
    /\ vertex_position' = pointPosition(pos, vertices[idx].id)
    /\ \E associated_face_id \in FaceIds :
          \E r \in VtxFacesResults(associated_face_id) : vtxs_faces' = r
    /\ closest_position' = NoPoint
    /\ cand' = 1
    /\ log' = [log EXCEPT !.queries = @ + 1, !.movesHere = 0, !.scanned = <<>>]
    /\ IF vtxs_faces'.isNone
       THEN pc' = "raised" /\ exc' = "TypeError"
       ELSE pc' = "scan" /\ exc' = exc
    /\ UNCHANGED <<pos, pos0, ui, referenceObject, vertices, tolerance, idx, host>>

\* cmds.move(x, y, z, vertex, worldSpace=True), line 106
move(scene, v, p) == [scene EXCEPT ![v] = p]

\* lines 95-106: one candidate
CandidateStep ==
    /\ pc = "scan"
    /\ cand <= Len(vtxs_faces.items)
    /\ LET associated_vtx == ToVertex(vtxs_faces.items[cand])
           associated_vtx_position == pointPosition(pos, associated_vtx)
           distance == get_magnitude(vertex_position, associated_vtx_position)
           better == Improves(distance, closest_distance)
           cd == IF better THEN distance ELSE closest_distance
           cp == IF better THEN associated_vtx_position ELSE closest_position
           seen == Append(log.scanned, [d |-> distance, p |-> associated_vtx_position])
       IN  /\ closest_distance' = cd
           /\ closest_position' = cp
           /\ IF WithinTolerance(cd, tolerance)
              THEN IF cp = NoPoint
                   THEN \* closest_position[0] on the empty list
                        /\ pc' = "raised"
                        /\ exc' = "IndexError"
                        /\ log' = [log EXCEPT !.scanned = seen]
                        /\ UNCHANGED <<pos, cand>>
                   ELSE /\ pos' = move(pos, vertices[idx].id, cp)
                        /\ log' = [log EXCEPT !.movesHere = @ + 1, !.scanned = seen]
                        /\ cand' = cand + 1
                        /\ UNCHANGED <<pc, exc>>
              ELSE /\ cand' = cand + 1
                   /\ log' = [log EXCEPT !.scanned = seen]
                   /\ UNCHANGED <<pos, pc, exc>>
    /\ UNCHANGED <<pos0, ui, referenceObject, vertices, tolerance, idx, vertex_position,
                   vtxs_faces, host>>

\* the locals of one iteration, which lines 84-94 assign before any is read again
ClearIteration ==
    /\ closest_distance' = INITIALISATION_DISTANCE
    /\ vertex_position' = NoPoint
    /\ vtxs_faces' = None
    /\ closest_position' = NoPoint
    /\ cand' = 0

\* line 108, after the last candidate, and the loop's advance to the next vertex
StepProgress ==
    /\ pc = "scan"
    /\ cand > Len(vtxs_faces.items)
    /\ log' = [log EXCEPT !.steps = @ + 1, !.movesHere = 0, !.scanned = <<>>,
                          !.settled = Append(@, pos[vertices[idx].id])]
    /\ idx' = idx + 1
    /\ ClearIteration
    /\ pc' = "loop"
    /\ UNCHANGED <<pos, pos0, ui, referenceObject, vertices, tolerance, host, exc>>

\* lines 110-112: the progress bar ends, the node is deleted
Finish ==
    /\ pc = "end"
    /\ progress' = "ended"
    /\ node' = "deleted"
    /\ log' = [log EXCEPT !.deleted = @ + 1]
    /\ pc' = "returned"
    /\ UNCHANGED <<pos, pos0, ui, referenceObject, vertices, tolerance, locals,
                   isCancelled, exc>>

Next ==
    \/ snap_it
    \/ Invoke
    \/ Begin
    \/ PressEsc
    \/ LoopHead
    \/ Query
    \/ CandidateStep
    \/ StepProgress
    \/ Finish

Spec == Init /\ [][Next]_vars

----------------------------------------------------------------------------
\* Vocabulary of the properties.

\* the vertex of the current iteration
Cur == vertices[idx].id

Items == vtxs_faces.items

\* an invocation of snap_to_closest_vertex has been made
Running == log.calls = 1

\* the candidates of the current vertex have all been scanned
ScanOver == pc = "scan" /\ cand > Len(Items)

\* the scene as it was when the scan of the current vertex began
StartScene == [pos EXCEPT ![Cur] = vertex_position]

CandDist(i) == get_magnitude(vertex_position, StartScene[ToVertex(Items[i])])

\* the first candidate, in topology order, at the minimum distance
FirstMin ==
    CHOOSE i \in 1..Len(Items) :
        /\ \A j \in 1..Len(Items) : ~Less(CandDist(j), CandDist(i))
        /\ \A j \in 1..(i - 1) : Less(CandDist(i), CandDist(j))

\* "find the minimum, then move once at the end"
DeferredResult ==
    IF Less(CandDist(FirstMin), tolerance)
    THEN StartScene[ToVertex(Items[FirstMin])]
    ELSE vertex_position

\* the distances and positions the scan has read so far
Scanned == log.scanned

IsMinOf(d, S) == d \in S /\ \A e \in S : ~Less(e, d)

\* the first scanned candidate at the minimum scanned distance
FirstMinScanned ==
    CHOOSE i \in 1..Len(Scanned) :
        /\ \A j \in 1..Len(Scanned) : ~Less(Scanned[j].d, Scanned[i].d)
        /\ \A j \in 1..(i - 1) : Less(Scanned[i].d, Scanned[j].d)

----------------------------------------------------------------------------
\* C1: when the scan of a vertex with a non-empty candidate list is over
\* (its candidates are exhausted, or the operation was left during the scan),
\* the vertex is where "find the minimum, then move once" would put it: at the
\* first minimum-distance candidate if that distance is below the tolerance,
\* at its start position otherwise.
C1_InterleavedEqualsDeferred ==
    ((ScanOver \/ (pc = "raised" /\ exc = "IndexError")) /\ Len(Items) > 0)
        => pos[Cur] = DeferredResult

\* The part of C1 the code keeps: the same, for a vertex that is not itself a
\* corner of its nearest face, in a scan that was not left by an exception.
C1_DeferredWhenDisjoint ==
    (ScanOver /\ Len(Items) > 0 /\ \A i \in 1..Len(Items) : ToVertex(Items[i]) # Cur)
        => pos[Cur] = DeferredResult

\* C2: whenever the operation has been left, the query node was created
\* once and deleted once, and is not alive.
C2_NodeReleasedOnEveryExit ==
    (Running /\ pc \in {"returned", "raised"})
        => (log.created = 1 /\ log.deleted = 1 /\ node = "deleted")

\* C3: the flag is polled once per vertex, before that vertex is processed;
\* and when the loop was left because the flag was found set before vertex
\* k+1, the first k vertices were each scanned to the end and are where their
\* own scan left them, and the others are where they were at the start.
C3_CancelKeepsPrefix ==
    /\ (Running /\ pc = "loop") => log.polls = idx - 1
    /\ (Running /\ pc \in {"body", "scan"}) => log.polls = idx
    /\ (Running /\ pc \in {"end", "returned"} /\ idx <= Len(vertices)) =>
          /\ isCancelled
          /\ log.polls = idx
          /\ log.queries = idx - 1
          /\ log.steps = idx - 1
          /\ Len(log.settled) = idx - 1
          /\ log.scanned = <<>>
          /\ \A i \in 1..(idx - 1) : pos[vertices[i].id] = log.settled[i]
          /\ \A i \in idx..Len(vertices) : pos[vertices[i].id] = pos0[vertices[i].id]
          /\ exc = "none"

C3_Witness ==
    /\ pc = "returned"
    /\ idx = 2
    /\ Len(vertices) = 2
    /\ pos[vertices[1].id] # pos0[vertices[1].id]

\* C4: a vertex whose nearest face converts to no vertex-face element (an
\* empty or an absent result) is left where it was, and the operation goes on
\* without raising.
C4_NoCandidatesIsSkipped ==
    (pc \in {"scan", "raised"} /\ Len(Items) = 0)
        => (pc = "scan" /\ exc = "none" /\ pos[Cur] = vertex_position)

C6_EmptyListIsNoOp ==
    (Running /\ vertices = <<>>) =>
        /\ pos = pos0
        /\ log.movesHere = 0
        /\ log.steps = 0
        /\ log.queries = 0
        /\ log.polls = 0
        /\ exc = "none"
        /\ pc \in {"called", "loop", "end", "returned"}
        /\ log.created = (IF pc = "called" THEN 0 ELSE 1)
        /\ log.deleted = (IF pc = "returned" THEN 1 ELSE 0)
        /\ node = (IF pc = "called" THEN "none" ELSE IF pc = "returned" THEN "deleted" ELSE "alive")

C6_Witness ==
    /\ Running
    /\ vertices = <<>>
    /\ pc = "returned"
    /\ node = "deleted"

\* C7: with a tolerance of zero or below, the move primitive is never invoked
\* and no vertex leaves its position.
C7_NonPositiveToleranceNeverMoves ==
    (Running /\ tolerance.sign <= 0) => (pos = pos0 /\ log.movesHere = 0)

\* tolerance 0, and a candidate at distance 0 has been scanned
C7_Witness ==
    /\ pc = "scan"
    /\ tolerance.sign = 0
    /\ Len(Scanned) > 0
    /\ Scanned[Len(Scanned)].d.sign = 0

\* what snap_it needs to run the snap
Precondition ==
    /\ ui.exists
    /\ ~ui.rel.isNone
    /\ Len(ui.rel.items) > 0
    /\ \E i \in 1..Len(ui.sel) : IsVertexComponent(ui.sel[i])

\* C8: snap_it without an existing reference, without a shape or without a
\* selected vertex returns having invoked nothing: no node, no progress, no
\* move, no exception; otherwise it invokes snap_to_closest_vertex once, on
\* the first shape, with the selected vertices and the tolerance 10.
C8_SnapItSilentNoOp ==
    /\ log.calls <= 1
    /\ (ui.via = "snap_it" /\ pc = "returned" /\ log.calls = 0) =>
          /\ ~Precondition
          /\ log = NoLog
          /\ node = "none"
          /\ progress = "idle"
          /\ pos = pos0
          /\ exc = "none"
    /\ (ui.via = "snap_it" /\ pc = "called") =>
          /\ Precondition
          /\ log.calls = 1
          /\ referenceObject = ui.rel.items[1]
          /\ vertices = SelectSeq(ui.sel, IsVertexComponent)
          /\ tolerance = Scalar(Small(10))

\* a reference with a shape, and a selection without a vertex
C8_Witness ==
    /\ ui.via = "snap_it"
    /\ pc = "returned"
    /\ log.calls = 0
    /\ ui.exists
    /\ ~ui.rel.isNone
    /\ ui.sel = <<OtherNode>>

\* what C9 says of the state after a candidate step
AfterStep ==
    /\ \A j \in 1..Len(Scanned) :
          Scanned[j].d = get_magnitude(pos0[Cur], Scanned[j].p)
    /\ IsMinOf(closest_distance,
               {INITIALISATION_DISTANCE} \cup {Scanned[j].d : j \in 1..Len(Scanned)})
    /\ Less(closest_distance, tolerance) =>
          /\ closest_position = Scanned[FirstMinScanned].p
          /\ pos[Cur] = closest_position

C10_MoveTargetIsACandidate ==
    ((pc = "scan" /\ log.movesHere > 0) \/ (pc = "raised" /\ exc = "IndexError"))
        => closest_position \in {Scanned[j].p : j \in 1..Len(Scanned)}

====
